---------------------------- MODULE Spec2Model ----------------------------
(***************************************************************************)
(* Model of src/app.py: a Streamlit page that ingests tabular data from an *)
(* uploaded file, pasted text or a bundled example dataset, keeps the      *)
(* current dataset and a "data is loaded" flag in st.session_state, and    *)
(* draws a chart of it.                                                    *)
(*                                                                         *)
(* Every user interaction re-runs main() from its first line.  One         *)
(* re-evaluation is modelled section by section (pc is the position in     *)
(* main), the widgets' values are the inputs of the section that reads     *)
(* them, and page is what the re-evaluation has written to the page.       *)
(*                                                                         *)
(* Texts and file names are sequences of one-character strings.  pandas    *)
(* and plotly are libraries outside the repository: a read either raises   *)
(* or yields a table whose columns the library decides, a chart call       *)
(* either raises or yields a figure; both are nondeterministic here.       *)
(***************************************************************************)
EXTENDS Integers, Sequences, FiniteSets, TLC

VARIABLES
    session_state,  \* st.session_state: a mapping from key to value
    pc,             \* position of the current re-evaluation in main()
    page,           \* elements written to the page by the current re-evaluation
    fig,            \* the chart request built in the plot section
    content,        \* DelimSpec: the text handed to detect_delimiter
    delimiter       \* DelimSpec: what detect_delimiter returned for it

vars == <<session_state, pc, page, fig, content, delimiter>>

---------------------------------------------------------------------------
(* Bounds *)

\* Longest text handed to detect_delimiter in DelimSpec.
MaxLen == 4

---------------------------------------------------------------------------
(* Text helpers *)

Comma == ","
Tab == "\t"
Space == " "
Newline == "\n"
Dot == "."

\* str.count(ch) for a one-character ch
RECURSIVE count(_, _)
count(s, ch) ==
    IF s = <<>> THEN 0
    ELSE (IF Head(s) = ch THEN 1 ELSE 0) + count(Tail(s), ch)

\* Mutant: ties go to the earlier choice (>= for >).
detect_delimiter_first_wins(text) ==
    IF count(text, Comma) >= count(text, Tab) /\ count(text, Comma) >= count(text, Space)
    THEN Comma
    ELSE IF count(text, Tab) >= count(text, Space)
    THEN Tab
    ELSE Space

\* detect_delimiter(content)
detect_delimiter(text) ==
    IF count(text, Comma) > count(text, Tab) /\ count(text, Comma) > count(text, Space)
    THEN Comma
    ELSE IF count(text, Tab) > count(text, Space)
    THEN Tab
    ELSE Space

UpperCase == <<"A","B","C","D","E","F","G","H","I","J","K","L","M",
               "N","O","P","Q","R","S","T","U","V","W","X","Y","Z">>
LowerCase == <<"a","b","c","d","e","f","g","h","i","j","k","l","m",
               "n","o","p","q","r","s","t","u","v","w","x","y","z">>

\* str.lower()
lower(s) ==
    [i \in 1..Len(s) |->
        IF \E k \in 1..26 : UpperCase[k] = s[i]
        THEN LowerCase[CHOOSE k \in 1..26 : UpperCase[k] = s[i]]
        ELSE s[i]]

\* str.split('.')[-1]: the text after the last '.', the whole text without one
split_last(s) ==
    LET dots == {i \in 1..Len(s) : s[i] = Dot}
    IN  IF dots = {} THEN s
        ELSE SubSeq(s, (CHOOSE i \in dots : \A j \in dots : j <= i) + 1, Len(s))

Whitespace == {Space, Tab, Newline, "\r"}

\* str.strip()
RECURSIVE lstrip(_)
lstrip(s) ==
    IF s # <<>> /\ Head(s) \in Whitespace THEN lstrip(Tail(s)) ELSE s

RECURSIVE rstrip(_)
rstrip(s) ==
    IF s # <<>> /\ s[Len(s)] \in Whitespace THEN rstrip(SubSeq(s, 1, Len(s) - 1)) ELSE s

strip(s) == rstrip(lstrip(s))

---------------------------------------------------------------------------
(* Values *)

\* Python's None as the value of st.session_state.df
None == [source |-> "None", reader |-> "None", delimiter |-> "None", columns |-> <<>>]

Col(name, dtype) == [name |-> name, dtype |-> dtype]

\* Column lists a read can produce: numeric only, categorical only, both.
Shapes ==
    { <<Col("a", "number")>>,
      <<Col("b", "object")>>,
      <<Col("a", "number"), Col("b", "object")>> }

\* What a pandas read does with its input: it raises, or it returns a table
\* with these columns.
ReadOutcomes ==
    {[raises |-> TRUE, columns |-> <<>>]}
        \cup {[raises |-> FALSE, columns |-> c] : c \in Shapes}

\* px.data.tips()
Tips ==
    [source |-> "example", reader |-> "px.data.tips", delimiter |-> "None",
     columns |-> <<Col("total_bill", "number"), Col("tip", "number"),
                   Col("sex", "object"), Col("smoker", "object"),
                   Col("day", "object"), Col("time", "object"),
                   Col("size", "number")>>]

\* Sample payloads: one where each delimiter wins the count, and a tie.
CommaText == <<"a", ",", "b", "\n", "1", ",", "2">>
TabText == <<"a", "\t", "b", "\n", "x", "\t", "y">>
SpaceText == <<"a", " ", "b", "\n", "1", " ", "x">>
TieText == <<"a", ",", "b", " ", "c">>
Contents == {CommaText, TabText, SpaceText, TieText}

\* Texts of the text area: the payloads, the empty text, whitespace only.
EmptyText == <<>>
BlankText == <<" ", "\n", "\t">>
ManualTexts == Contents \cup {EmptyText, BlankText}

Names ==
    { <<"d", ".", "c", "s", "v">>,
      <<"D", ".", "T", "S", "V">>,
      <<"d", ".", "t", "x", "t">>,
      <<"d", ".", "X", "l", "s", "x">>,
      <<"d", ".", "j", "s", "o", "n">>,
      <<"d", ".", "p", "a", "r", "q", "u", "e", "t">>,
      <<"d", ".", "b", "m", "p">>,
      <<"d", ".", "c", "s", "v", ".", "b", "m", "p">>,
      <<"d", ".", "b", "m", "p", ".", "C", "s", "v">>,
      <<"j", "s", "o", "n">>,
      <<"d", "c", "s", "v">>,
      <<"d", ".">> }

\* The uploader's value: no file, or a file with a name and a payload.  The
\* payload only matters to the text formats.  The uploader's type list is a
\* best-effort filter of the widget, so load_uploaded_file is also modelled
\* on names outside it, as its final else branch expects.
NoFile == [name |-> <<>>, content |-> <<>>]
Files ==
    {[name |-> n, content |-> c] : n \in Names, c \in {CommaText}}
        \cup {[name |-> <<"d", ".", "c", "s", "v">>, content |-> c] : c \in Contents}
        \cup {[name |-> <<"D", ".", "T", "S", "V">>, content |-> c] : c \in Contents}

TextFormats == { <<"c", "s", "v">>, <<"t", "s", "v">>, <<"t", "x", "t">> }
Xlsx == <<"x", "l", "s", "x">>
Json == <<"j", "s", "o", "n">>
Parquet == <<"p", "a", "r", "q", "u", "e", "t">>

\* Mutant: the part after the first '.', as name.split('.')[1] would take it.
file_ext_first_dot(name) ==
    LET dots == {i \in 1..Len(name) : name[i] = Dot}
        first == CHOOSE i \in dots : \A j \in dots : i <= j
        rest == SubSeq(name, first + 1, Len(name))
        more == {i \in 1..Len(rest) : rest[i] = Dot}
    IN  IF dots = {} THEN lower(name)
        ELSE IF more = {} THEN lower(rest)
        ELSE lower(SubSeq(rest, 1, (CHOOSE i \in more : \A j \in more : i <= j) - 1))

\* uploaded_file.name.split('.')[-1].lower()
file_ext(name) == lower(split_last(name))

Supported(name) == file_ext(name) \in TextFormats \cup {Xlsx, Json, Parquet}

---------------------------------------------------------------------------
(* st.session_state and the page *)

EmptySession == [k \in {} |-> FALSE]

\* st.session_state.<k> = v
Set(ss, k, v) == [q \in DOMAIN ss \cup {k} |-> IF q = k THEN v ELSE ss[q]]

Element(kind, text) == [kind |-> kind, text |-> text]

\* A call's effect: the session state it leaves and what it wrote to the page.
Effect(ss, out) == [ss |-> ss, out |-> out]

---------------------------------------------------------------------------
(* Ingestion *)

\* Mutant: the dataset is stored and the flag is not raised.
load_example_data_keeps_flag(ss) ==
    Effect(Set(ss, "df", Tips),
           <<Element("success", "Loaded example dataset")>>)

\* load_example_data()
load_example_data(ss) ==
    Effect(Set(Set(ss, "df", Tips), "data_loaded", TRUE),
           <<Element("success", "Loaded example dataset")>>)

\* The table load_uploaded_file reads from a file the library accepts.
UploadedTable(uploaded_file, read) ==
    LET ext == file_ext(uploaded_file.name)
    IN  [source |-> "upload",
         reader |-> IF ext \in TextFormats THEN "read_csv"
                    ELSE IF ext = Xlsx THEN "read_excel"
                    ELSE IF ext = Json THEN "read_json"
                    ELSE "read_parquet",
         delimiter |-> IF ext \in TextFormats
                       THEN detect_delimiter(uploaded_file.content)
                       ELSE "None",
         columns |-> read.columns]

\* Mutant: the except branch also drops the current dataset.
load_uploaded_file_resets_df(ss, uploaded_file, read) ==
    IF ~Supported(uploaded_file.name)
    THEN Effect(ss, <<Element("error", "Unsupported file format")>>)
    ELSE IF read.raises
    THEN Effect(Set(Set(ss, "df", None), "data_loaded", FALSE),
                <<Element("error", "Could not read file")>>)
    ELSE Effect(Set(Set(ss, "df", UploadedTable(uploaded_file, read)),
                    "data_loaded", TRUE),
                <<Element("success", "Successfully loaded file")>>)

\* load_uploaded_file(uploaded_file); read is what the library does with it
load_uploaded_file(ss, uploaded_file, read) ==
    IF ~Supported(uploaded_file.name)
    THEN Effect(ss, <<Element("error", "Unsupported file format")>>)
    ELSE IF read.raises
    THEN Effect(Set(ss, "data_loaded", FALSE),
                <<Element("error", "Could not read file")>>)
    ELSE Effect(Set(Set(ss, "df", UploadedTable(uploaded_file, read)),
                    "data_loaded", TRUE),
                <<Element("success", "Successfully loaded file")>>)

\* The table load_manual_data reads from a text the library accepts.
ManualTable(manual_text, read) ==
    [source |-> "manual", reader |-> "read_csv",
     delimiter |-> detect_delimiter(manual_text), columns |-> read.columns]

\* Mutant: the flag is raised before the read and not lowered when it raises.
load_manual_data_flag_on_error(ss, manual_text, read) ==
    IF read.raises
    THEN Effect(Set(ss, "data_loaded", TRUE),
                <<Element("error", "Could not process manual data")>>)
    ELSE Effect(Set(Set(ss, "df", ManualTable(manual_text, read)),
                    "data_loaded", TRUE),
                <<Element("success", "Successfully loaded manual data")>>)

\* load_manual_data(manual_text); read is what the library does with it
load_manual_data(ss, manual_text, read) ==
    IF read.raises
    THEN Effect(Set(ss, "data_loaded", FALSE),
                <<Element("error", "Could not process manual data")>>)
    ELSE Effect(Set(Set(ss, "df", ManualTable(manual_text, read)),
                    "data_loaded", TRUE),
                <<Element("success", "Successfully loaded manual data")>>)

---------------------------------------------------------------------------
(* The plot section *)

RECURSIVE select_dtypes(_, _)
\* df.select_dtypes(include='number') / (exclude='number'), .columns.tolist()
select_dtypes(columns, numeric) ==
    IF columns = <<>> THEN <<>>
    ELSE (IF (Head(columns).dtype = "number") = numeric
          THEN <<Head(columns).name>> ELSE <<>>)
         \o select_dtypes(Tail(columns), numeric)

numeric_cols(df) == select_dtypes(df.columns, TRUE)
categorical_cols(df) == select_dtypes(df.columns, FALSE)
all_cols(df) == [i \in 1..Len(df.columns) |-> df.columns[i].name]

\* st.sidebar.selectbox(label, options, index): with no options it returns
\* None; otherwise the user may pick any option.
Selectbox(options) ==
    IF options = <<>> THEN {"None"} ELSE {options[i] : i \in 1..Len(options)}

\* st.sidebar.selectbox raises on an index outside a non-empty option list.
SelectboxRaises(options, index) ==
    options # <<>> /\ ~(0 <= index /\ index < Len(options))

\* st.sidebar.multiselect(label, options, default): any subset of the options.
Multiselect(options) == SUBSET {options[i] : i \in 1..Len(options)}

PlotTypes == {"Scatter", "Line", "Bar", "Histogram", "Box", "Pair Plot"}

NoFig == [plot_type |-> "None", x |-> "unbound", y |-> "unbound",
          color |-> "None", dimensions |-> {}]

\* The locals plot_type, x_axis, y_axis, color_var and dimensions after the
\* widgets of the sidebar: every choice the user can make for this table.
PlotRequests(df) ==
    LET num == numeric_cols(df)
        cat == categorical_cols(df)
        all == all_cols(df)
    IN  {[plot_type |-> t, x |-> x, y |-> y, color |-> IF c = "None" THEN "None" ELSE c,
          dimensions |-> {}] :
            t \in {"Scatter", "Bar"}, x \in Selectbox(all), y \in Selectbox(num),
            c \in Selectbox(<<"None">> \o all)}
        \cup {[plot_type |-> "Line", x |-> x, y |-> y, color |-> "None",
               dimensions |-> {}] : x \in Selectbox(all), y \in Selectbox(num)}
        \cup {[plot_type |-> "Box", x |-> x, y |-> y, color |-> "None",
               dimensions |-> {}] : x \in Selectbox(cat), y \in Selectbox(num)}
        \cup {[plot_type |-> "Histogram", x |-> x, y |-> "None", color |-> "None",
               dimensions |-> {}] : x \in Selectbox(all)}
        \cup {[plot_type |-> "Pair Plot", x |-> "unbound", y |-> "unbound",
               color |-> "None", dimensions |-> d] : d \in Multiselect(num)}

\* Mutant: no try/except around the chart call, so an exception it raises
\* ends the script.
chart_uncaught(ss, request, raises) ==
    IF raises
    THEN [ss |-> ss, out |-> <<Element("subheader", request.plot_type),
                               Element("exception", "uncaught")>>,
          pc |-> "crashed"]
    ELSE [ss |-> ss, out |-> <<Element("subheader", request.plot_type),
                               Element("plotly_chart", request.plot_type)>>,
          pc |-> "footer"]

\* st.subheader, then the try block: px.<kind>(...) and st.plotly_chart(fig),
\* with except Exception turning a failure into st.error.
chart(ss, request, raises) ==
    IF raises
    THEN [ss |-> ss, out |-> <<Element("subheader", request.plot_type),
                               Element("error", "Error generating plot")>>,
          pc |-> "footer"]
    ELSE [ss |-> ss, out |-> <<Element("subheader", request.plot_type),
                               Element("plotly_chart", request.plot_type)>>,
          pc |-> "footer"]

---------------------------------------------------------------------------
(* main(): one re-evaluation of the page *)

\* A user interaction starts a re-evaluation once the previous one has ended.
Ended == pc \in {"idle", "stopped", "done", "crashed"}

Rerun ==
    /\ Ended
    /\ pc' = "init"
    /\ page' = <<>>
    /\ fig' = NoFig
    /\ UNCHANGED <<session_state, content, delimiter>>

\* if "df" not in st.session_state: ...
init_session(ss) ==
    IF "df" \notin DOMAIN ss
    THEN Set(Set(ss, "df", None), "data_loaded", FALSE)
    ELSE ss

InitSession ==
    /\ pc = "init"
    /\ session_state' = init_session(session_state)
    /\ pc' = "upload"
    /\ UNCHANGED <<page, fig, content, delimiter>>

\* File Upload Section: the uploader's value, then load_uploaded_file.
file_upload_section(ss, uploaded_file, read) ==
    IF uploaded_file # NoFile
    THEN load_uploaded_file(ss, uploaded_file, read)
    ELSE Effect(ss, <<>>)

FileUploadSection(uploaded_file, read) ==
    /\ pc = "upload"
    /\ LET e == file_upload_section(session_state, uploaded_file, read)
       IN  /\ session_state' = e.ss
           /\ page' = page \o e.out
    /\ pc' = "manual"
    /\ UNCHANGED <<fig, content, delimiter>>

\* Mutant: the text is tested without strip().
manual_data_section_no_strip(ss, manual_text, pressed, read) ==
    IF pressed
    THEN IF manual_text # <<>>
         THEN load_manual_data(ss, manual_text, read)
         ELSE Effect(ss, <<Element("warning", "Please enter some data")>>)
    ELSE Effect(ss, <<>>)

\* Manual Data Input Section: the text area's value and the button.
manual_data_section(ss, manual_text, pressed, read) ==
    IF pressed
    THEN IF strip(manual_text) # <<>>
         THEN load_manual_data(ss, manual_text, read)
         ELSE Effect(ss, <<Element("warning", "Please enter some data")>>)
    ELSE Effect(ss, <<>>)

ManualDataSection(manual_text, pressed, read) ==
    /\ pc = "manual"
    /\ LET e == manual_data_section(session_state, manual_text, pressed, read)
       IN  /\ session_state' = e.ss
           /\ page' = page \o e.out
    /\ pc' = "example"
    /\ UNCHANGED <<fig, content, delimiter>>

\* Mutant: the example is not loaded over data that is already loaded.
example_section_unless_loaded(ss, pressed) ==
    IF pressed /\ ~ss.data_loaded THEN load_example_data(ss) ELSE Effect(ss, <<>>)

\* Button to load example data.
example_section(ss, pressed) ==
    IF pressed THEN load_example_data(ss) ELSE Effect(ss, <<>>)

ExampleSection(pressed) ==
    /\ pc = "example"
    /\ LET e == example_section(session_state, pressed)
       IN  /\ session_state' = e.ss
           /\ page' = page \o e.out
    /\ pc' = "gate"
    /\ UNCHANGED <<fig, content, delimiter>>

\* Mutant: the gate tests the dataset reference instead of the flag.
gate_open_has_dataset(ss) == ss.df # None

\* if not st.session_state.data_loaded: st.info(...); return
gate_open(ss) == ss.data_loaded

Gate ==
    /\ pc = "gate"
    /\ IF gate_open(session_state)
       THEN /\ pc' = "preview"
            /\ page' = page
       ELSE /\ pc' = "stopped"
            /\ page' = Append(page, Element("info", "Please upload a file"))
    /\ UNCHANGED <<session_state, fig, content, delimiter>>

\* if st.checkbox("Show raw data"): st.dataframe(df.head(10))
Preview(show_raw) ==
    /\ pc = "preview"
    /\ page' = IF show_raw
               THEN Append(page, Element("dataframe", session_state.df.source))
               ELSE page
    /\ pc' = "plot"
    /\ UNCHANGED <<session_state, fig, content, delimiter>>

\* Plot Configuration, the colour picker and the chart: the user's choices
\* in the sidebar, then what plotly does with them.
PlotSection ==
    /\ pc = "plot"
    /\ LET df == session_state.df
       IN  IF \/ SelectboxRaises(all_cols(df), 0)
              \/ SelectboxRaises(numeric_cols(df), 0)
           THEN /\ pc' = "crashed"
                /\ fig' = fig
                /\ page' = Append(page, Element("exception", "uncaught"))
                /\ session_state' = session_state
           ELSE \E request \in PlotRequests(df), raises \in BOOLEAN :
                    LET e == chart(session_state, request, raises)
                    IN  /\ pc' = e.pc
                        /\ fig' = request
                        /\ page' = page \o <<Element("sidebar", "Plot Configuration")>>
                                        \o e.out
                        /\ session_state' = e.ss
    /\ UNCHANGED <<content, delimiter>>

\* Footer
Footer ==
    /\ pc = "footer"
    /\ page' = Append(page, Element("markdown", "footer"))
    /\ pc' = "done"
    /\ UNCHANGED <<session_state, fig, content, delimiter>>

Init ==
    /\ session_state = EmptySession
    /\ pc = "idle"
    /\ page = <<>>
    /\ fig = NoFig
    /\ content = <<>>
    /\ delimiter = "unset"

\* The widgets' values are free in every re-evaluation: any file or none, any
\* text, each button pressed or not, any choice in the sidebar.
Next ==
    \/ Rerun
    \/ InitSession
    \/ \E f \in Files \cup {NoFile}, r \in ReadOutcomes : FileUploadSection(f, r)
    \/ \E t \in ManualTexts, b \in BOOLEAN, r \in ReadOutcomes : ManualDataSection(t, b, r)
    \/ \E b \in BOOLEAN : ExampleSection(b)
    \/ Gate
    \/ \E b \in BOOLEAN : Preview(b)
    \/ PlotSection
    \/ Footer

Spec == Init /\ [][Next]_vars

---------------------------------------------------------------------------
(* detect_delimiter on its own: every text up to MaxLen over these characters *)

Alphabet == {Comma, Tab, Space, "a"}

Texts == UNION {[1..n -> Alphabet] : n \in 0..MaxLen}

DelimInit ==
    /\ content \in Texts
    /\ delimiter = "unset"
    /\ session_state = EmptySession
    /\ pc = "idle"
    /\ page = <<>>
    /\ fig = NoFig

Detect ==
    /\ delimiter = "unset"
    /\ delimiter' = detect_delimiter(content)
    /\ UNCHANGED <<content, session_state, pc, page, fig>>

DelimNext == Detect

DelimSpec == DelimInit /\ [][DelimNext]_vars

---------------------------------------------------------------------------
(* Vocabulary of the properties *)

\* How often ch occurs in text, counted by positions.
Occurrences(text, ch) == Cardinality({i \in 1..Len(text) : text[i] = ch})

\* a and b are the same letter up to case (b is lower case).
SameLetter(a, b) == a = b \/ \E k \in 1..26 : UpperCase[k] = a /\ LowerCase[k] = b

\* The text after the last '.' of name (the whole name when it has none) is
\* ext, compared case-insensitively.  ext holds no '.'.
HasExtension(name, ext) ==
    LET n == Len(name)
        k == Len(ext)
    IN  /\ n >= k
        /\ n = k \/ name[n - k] = Dot
        /\ \A i \in 1..k : SameLetter(name[n - k + i], ext[i])
        /\ n = k => \A i \in 1..n : name[i] # Dot

AcceptedExtensions ==
    { <<"c", "s", "v">>, <<"t", "s", "v">>, <<"t", "x", "t">>,
      <<"x", "l", "s", "x">>, <<"j", "s", "o", "n">>,
      <<"p", "a", "r", "q", "u", "e", "t">> }

Accepted(name) == \E e \in AcceptedExtensions : HasExtension(name, e)

\* Empty or whitespace only.
IsBlank(text) == \A i \in 1..Len(text) : text[i] \in Whitespace

Loaded == "data_loaded" \in DOMAIN session_state /\ session_state.data_loaded

HasDataset == "df" \in DOMAIN session_state /\ session_state.df # None

OnPage(kind, text) == \E i \in 1..Len(page) : page[i] = Element(kind, text)

\* The page shows a data preview, the plot configuration or a chart.
ShowsData ==
    \E i \in 1..Len(page) :
        page[i].kind \in {"dataframe", "sidebar", "subheader", "plotly_chart"}

\* The notices of ingestions that raised, and of ingestions that succeeded.
RaisedNotices ==
    {Element("error", "Could not read file"),
     Element("error", "Could not process manual data")}

SuccessNotices ==
    {Element("success", "Successfully loaded file"),
     Element("success", "Successfully loaded manual data"),
     Element("success", "Loaded example dataset")}

---------------------------------------------------------------------------
(* Properties *)

\* C1: detect_delimiter returns comma exactly when ',' occurs strictly more
\* often than both tab and space; otherwise tab exactly when tab occurs
\* strictly more often than space; otherwise space.  Ties and the text with
\* none of the three end at space.
C1_DetectDelimiter ==
    delimiter # "unset" =>
        LET commas == Occurrences(content, Comma)
            tabs == Occurrences(content, Tab)
            spaces == Occurrences(content, Space)
            commaWins == commas > tabs /\ commas > spaces
        IN  /\ delimiter \in {Comma, Tab, Space}
            /\ delimiter = Comma <=> commaWins
            /\ delimiter = Tab <=> (~commaWins /\ tabs > spaces)
            /\ delimiter = Space <=> (~commaWins /\ tabs <= spaces)

\* A tie between comma and space, both present, was settled as space.
C1_Witness ==
    /\ delimiter = Space
    /\ Occurrences(content, Comma) = 2
    /\ Occurrences(content, Space) = 2
    /\ Occurrences(content, Tab) = 0

\* C2: every failed ingestion (unsupported extension, a read of an uploaded
\* file that raises, a read of pasted text that raises) that starts with the
\* loaded flag true returns with the flag false.
C2_FailedIngestionClearsFlag ==
    [][/\ \A f \in Files, r \in ReadOutcomes :
              (Loaded /\ FileUploadSection(f, r) /\ (~Accepted(f.name) \/ r.raises))
                  => ~session_state'.data_loaded
       /\ \A t \in ManualTexts, r \in ReadOutcomes :
              (Loaded /\ ManualDataSection(t, TRUE, r) /\ ~IsBlank(t) /\ r.raises)
                  => ~session_state'.data_loaded]_vars

\* C3: an uploaded file whose extension is none of csv, tsv, txt, xlsx, json,
\* parquet gets the "unsupported format" error notice and nothing else: no
\* dataset is produced and the current-dataset reference is the one before.
C3_UnsupportedLeavesDataset ==
    [][\A f \in Files, r \in ReadOutcomes :
           (FileUploadSection(f, r) /\ ~Accepted(f.name))
               => /\ page' = Append(page, Element("error", "Unsupported file format"))
                  /\ session_state'.df = session_state.df]_vars

\* An unsupported upload was reported while an earlier dataset is still current.
C3_Witness ==
    /\ OnPage("error", "Unsupported file format")
    /\ pc = "manual"
    /\ HasDataset
    /\ session_state.df.source = "manual"

\* C4 as stated: pressing "Load manual data" with empty or whitespace-only
\* text reports an error, never turns the loaded flag to true and does not
\* replace the current dataset.
C4_BlankTextReportsError ==
    [][\A t \in ManualTexts, r \in ReadOutcomes :
           (ManualDataSection(t, TRUE, r) /\ IsBlank(t))
               => /\ \E e \in {page'[i] : i \in 1..Len(page')} :
                         page' = Append(page, e) /\ e.kind = "error"
                  /\ session_state'.data_loaded => session_state.data_loaded
                  /\ session_state'.df = session_state.df]_vars

\* C4 amended: pressing "Load manual data" with empty or whitespace-only text
\* reports a warning notice, not an error; the text is not ingested, and the
\* loaded flag and the current dataset are left as they were.
C4_BlankTextWarns ==
    [][\A t \in ManualTexts, r \in ReadOutcomes :
           (ManualDataSection(t, TRUE, r) /\ IsBlank(t))
               => /\ page' = Append(page, Element("warning", "Please enter some data"))
                  /\ session_state' = session_state]_vars

\* A blank text was rejected with the warning while a dataset was loaded.
C4_Witness ==
    /\ pc = "example"
    /\ page = <<Element("warning", "Please enter some data")>>
    /\ Loaded
    /\ HasDataset

\* C5: from every reachable session state a successful ingestion of any
\* source ends with the loaded flag true and the current dataset exactly the
\* table read from that source.
C5_SuccessReplacesDataset ==
    [][/\ \A f \in Files, r \in ReadOutcomes :
              (FileUploadSection(f, r) /\ Accepted(f.name) /\ ~r.raises)
                  => /\ session_state'.data_loaded
                     /\ session_state'.df.source = "upload"
                     /\ session_state'.df.columns = r.columns
                     /\ session_state'.df = UploadedTable(f, r)
       /\ \A t \in ManualTexts, r \in ReadOutcomes :
              (ManualDataSection(t, TRUE, r) /\ ~IsBlank(t) /\ ~r.raises)
                  => /\ session_state'.data_loaded
                     /\ session_state'.df.source = "manual"
                     /\ session_state'.df.columns = r.columns
                     /\ session_state'.df = ManualTable(t, r)
       /\ ExampleSection(TRUE)
              => /\ session_state'.data_loaded
                 /\ session_state'.df = Tips]_vars

\* After a failed upload in the same re-evaluation, pasted text was ingested
\* and replaced the dataset.
C5_Witness ==
    /\ pc = "example"
    /\ page = <<Element("error", "Could not read file"),
                Element("success", "Successfully loaded manual data")>>
    /\ Loaded
    /\ session_state.df.source = "manual"

\* C6: in the plot section, for every plot kind and every selection the
\* widgets can return, a failure of the chart call becomes the error notice,
\* the re-evaluation goes on to its end and never stops on an uncaught
\* exception, and the dataset and the loaded flag are unchanged.
C6_ChartFailureRecovered ==
    [][/\ pc = "plot"
              => /\ session_state' = session_state
                 /\ pc' = "footer"
                 /\ \/ page'[Len(page')] = Element("plotly_chart", fig'.plot_type)
                    \/ page'[Len(page')] = Element("error", "Error generating plot")
       /\ pc = "footer" => pc' = "done" /\ session_state' = session_state
       /\ pc' # "crashed"]_vars

\* A chart over an empty Y selection (no numeric column) failed and the
\* re-evaluation still reached its end with the dataset loaded.
C6_Witness ==
    /\ pc = "done"
    /\ OnPage("error", "Error generating plot")
    /\ fig.plot_type = "Scatter"
    /\ fig.y = "None"
    /\ numeric_cols(session_state.df) = <<>>
    /\ Loaded

\* C7: preview, plot configuration and chart are on the page only if the
\* loaded flag is true after the ingestion sections; with the flag false the
\* page ends with the "please upload" notice and the re-evaluation stops.  A
\* re-evaluation whose last ingestion raised shows no preview or chart.
C7_GateOnLoadedFlag ==
    /\ ShowsData => Loaded
    /\ pc \in {"preview", "plot", "footer", "done"} => Loaded
    /\ pc = "stopped"
           => /\ ~Loaded
              /\ page[Len(page)] = Element("info", "Please upload a file")
              /\ ~ShowsData
    /\ OnPage("info", "Please upload a file") => pc = "stopped"
    /\ \A i \in 1..Len(page) :
           (/\ page[i] \in RaisedNotices
            /\ \A j \in (i + 1)..Len(page) : page[j] \notin SuccessNotices)
               => ~ShowsData

\* A read raised while an earlier dataset was current, and the page stopped
\* at the notice.
C7_Witness ==
    /\ pc = "stopped"
    /\ OnPage("error", "Could not read file")
    /\ HasDataset

\* C8: the sources are ingested in the order uploaded file (whenever the
\* uploader holds one), pasted text (only with its button pressed and a
\* non-blank text), example data (only with its button pressed), and the gate
\* sees the outcome of the last one attempted: with the example button pressed
\* the flag is true and the example dataset current, whatever came before;
\* with a file and no button pressed, flag and dataset are as the file's
\* ingestion left them.
C8_AtGate ==
    pc = "gate" =>
        /\ OnPage("success", "Loaded example dataset")
               => Loaded /\ session_state.df = Tips
        /\ page = <<Element("success", "Successfully loaded file")>>
               => Loaded /\ session_state.df.source = "upload"
        /\ page = <<Element("error", "Could not read file")>> => ~Loaded

C8_Steps ==
    /\ pc = "upload" => pc' = "manual"
    /\ pc = "manual" => pc' = "example"
    /\ pc = "example" => pc' = "gate"
    /\ \A f \in Files, r \in ReadOutcomes :
           FileUploadSection(f, r) => Len(page') = Len(page) + 1
    /\ \A r \in ReadOutcomes :
           FileUploadSection(NoFile, r) => UNCHANGED <<session_state, page>>
    /\ \A t \in ManualTexts, r \in ReadOutcomes :
           /\ ManualDataSection(t, FALSE, r) => UNCHANGED <<session_state, page>>
           /\ (ManualDataSection(t, TRUE, r) /\ IsBlank(t))
                  => UNCHANGED session_state
           /\ (ManualDataSection(t, TRUE, r) /\ ~IsBlank(t))
                  => \/ page' = Append(page, Element("success",
                                                     "Successfully loaded manual data"))
                     \/ page' = Append(page, Element("error",
                                                     "Could not process manual data"))
    /\ ExampleSection(FALSE) => UNCHANGED <<session_state, page>>
    /\ ExampleSection(TRUE)
           => /\ pc' = "gate"
              /\ session_state'.data_loaded
              /\ session_state'.df = Tips

C8_IngestionOrder == []C8_AtGate /\ [][C8_Steps]_vars

\* The upload raised and the example button was pressed in the same
\* re-evaluation: the gate sees the example dataset, loaded.
C8_Witness ==
    /\ pc = "gate"
    /\ page = <<Element("error", "Could not read file"),
                Element("success", "Loaded example dataset")>>
    /\ Loaded
    /\ session_state.df = Tips

\* C9: in every reachable state the loaded flag being true implies that the
\* current dataset is set (not None) and is a table a successful ingestion
\* produced.
C9_LoadedImpliesDataset ==
    Loaded =>
        /\ HasDataset
        /\ session_state.df.source \in {"upload", "manual", "example"}
        /\ session_state.df \in {Tips}
               \cup {[source |-> "manual", reader |-> "read_csv", delimiter |-> d,
                      columns |-> c] : d \in {Comma, Tab, Space}, c \in Shapes}
               \cup {[source |-> "upload", reader |-> "read_csv", delimiter |-> d,
                      columns |-> c] : d \in {Comma, Tab, Space}, c \in Shapes}
               \cup {[source |-> "upload", reader |-> rd, delimiter |-> "None",
                      columns |-> c] :
                          rd \in {"read_excel", "read_json", "read_parquet"},
                          c \in Shapes}

\* The flag is still true, over the example dataset of an earlier
\* re-evaluation, after an unsupported upload in this one.
C9_Witness ==
    /\ pc = "gate"
    /\ page = <<Element("error", "Unsupported file format")>>
    /\ Loaded
    /\ session_state.df = Tips

\* C10: an ingestion of an uploaded file or of pasted text that raises sets
\* the loaded flag to false and changes nothing else: the current-dataset
\* reference is the one before the attempt.
C10_RaiseKeepsDataset ==
    [][/\ \A f \in Files, r \in ReadOutcomes :
              (FileUploadSection(f, r) /\ Accepted(f.name) /\ r.raises)
                  => /\ session_state'.df = session_state.df
                     /\ ~session_state'.data_loaded
                     /\ DOMAIN session_state' = DOMAIN session_state
       /\ \A t \in ManualTexts, r \in ReadOutcomes :
              (ManualDataSection(t, TRUE, r) /\ ~IsBlank(t) /\ r.raises)
                  => /\ session_state'.df = session_state.df
                     /\ ~session_state'.data_loaded
                     /\ DOMAIN session_state' = DOMAIN session_state]_vars

\* Pasted text failed to parse: the flag is false and the uploaded table of
\* before is still the current dataset.
C10_Witness ==
    /\ pc = "example"
    /\ page = <<Element("error", "Could not process manual data")>>
    /\ ~Loaded
    /\ HasDataset
    /\ session_state.df.source = "upload"

=============================================================================
